---- MODULE Spec2Model ----
(***************************************************************************)
(* Model of build-aux/inno_build.py, the Inno-Setup installer packager of  *)
(* rnote: a linear script that collects DLLs, collects and compiles        *)
(* GSchemas, collects locale catalogs and finally runs the installer       *)
(* compiler.  The state is the part of the file system the script reads    *)
(* and writes, the script's position, its diagnostic stream and the log of *)
(* the os.system calls it made.                                            *)
(*                                                                         *)
(* A path is the sequence of its components; a file's data is the set of   *)
(* input files its bytes are a function of (its provenance).               *)
(***************************************************************************)
EXTENDS Integers, Sequences, FiniteSets, TLC

VARIABLES
    build_environment_path, \* sys.argv[3]
    ui_output_exists,       \* whether <build_root>/<ui_output> is on disk
    loaders,                \* glob result: pixbuf loader binaries, in glob order
    angle_dlls,             \* glob result: libEGL*.dll then libGLES*.dll
    ldd_out,                \* binary path -> set of paths ldd prints for it
    sys_schemas,            \* glob result: <env>/share/glib-2.0/schemas/org.gtk.*
    app_schema,             \* "missing" | "malformed" | "valid"
    app_mo_dir,             \* <build_root>/crates/rnote-ui/po
    sys_locale,             \* language tag -> catalogs in <env>/share/locale/<tag>/LC_MESSAGES
    inno_script_exists,     \* whether sys.argv[8] is on disk
    dlls_dir,               \* <build_root>/dlls
    gschemas_dir,           \* <build_root>/gschemas
    locale_dir,             \* <build_root>/locale
    pc,                     \* position of the script
    idx,                    \* position inside the current for loop
    exit_status,            \* process exit status, meaningful when pc = "exited"
    stderr,                 \* diagnostic stream of the current process
    syslog,                 \* os.system calls of the current process, in order
    runs,                   \* number of times the script was started
    first_ok                \* output trees of the first successful run

inputs == <<build_environment_path, ui_output_exists, loaders, angle_dlls, ldd_out,
            sys_schemas, app_schema, app_mo_dir, sys_locale, inno_script_exists>>

outputs == <<dlls_dir, gschemas_dir, locale_dir>>

vars == <<inputs, outputs, pc, idx, exit_status, stderr, syslog, runs, first_ok>>

----------------------------------------------------------------------------
(* Bounds of the model. *)

MaxRuns == 2

MaxLoaders == 1

MaxAngle == 1

MaxLangs == 2

----------------------------------------------------------------------------
(* Paths. *)

build_root == <<"build">>

Environments == {<<"mingw64">>, <<"ucrt64">>}

ui_output == build_root \o <<"rnote.exe">>

inno_script == build_root \o <<"rnote_inno.iss">>

LibPath(env) == env \o <<"bin", "libgtk-4-1.dll">>

SystemDllPath == <<"c", "Windows", "SYSTEM32", "KERNEL32.DLL">>

LoaderNames == {"libpixbufloader-svg.dll", "libpixbufloader-avif.dll"}

LoaderPath(env, name) == env \o <<"lib", "gdk-pixbuf-2.0", "2.10.0", "loaders", name>>

EglNames == {"libEGL.dll"}

GlesNames == {"libGLESv2.dll"}

AnglePath(env, name) == env \o <<"bin", name>>

app_schema_path == build_root \o <<"crates", "rnote-ui", "data", "com.github.flxzt.rnote.gschema.xml">>

SchemaNames == {"org.gtk.gtk4.Settings.FileChooser.gschema.xml"}

SchemaPath(env, name) == env \o <<"share", "glib-2.0", "schemas", name>>

app_mo_path == build_root \o <<"crates", "rnote-ui", "po">>

Basename(path) == path[Len(path)]

Range(seq) == {seq[i] : i \in 1..Len(seq)}

InjectiveSeqs(S, n) ==
    UNION {{s \in [1..k -> S] : \A i, j \in 1..k : s[i] = s[j] => i = j} : k \in 0..n}

----------------------------------------------------------------------------
(* Directories under the build root.  A flat directory is a set of files,  *)
(* each a name with its data; Stale marks bytes left by an earlier run.    *)

Stale == <<"stale">>

NoDir == [exists |-> FALSE, files |-> {}]

File(name, data) == [name |-> name, data |-> data]

Names(dir) == {f.name : f \in dir.files}

KeepDir(dir) == [exists |-> TRUE, files |-> dir.files]

\* if os.path.exists(d): shutil.rmtree(d); os.mkdir(d)
RecreateDir(dir) == [exists |-> TRUE, files |-> {}]

\* cp / shutil.copy of source files into a directory: a same-named file is overwritten
CopyInto(dir, paths) ==
    [dir EXCEPT !.files = {f \in @ : f.name \notin {Basename(p) : p \in paths}}
                            \cup {File(Basename(p), {p}) : p \in paths}]

----------------------------------------------------------------------------
(* The shell command lines handed to os.system. *)

Command(prog, arg) == [prog |-> prog, arg |-> arg]

NoCommand == Command("", <<>>)

\* ldd <binary> | grep '\/mingw.*\.dll' -o | xargs -i cp {} <dlls_dir>
LddCommand(binary) == Command("ldd | grep '\\/mingw.*\\.dll' -o | xargs -i cp {} build/dlls", binary)

CpCommand(path) == Command("cp {} build/dlls", path)

CompileCommand == Command("glib-compile-schemas", build_root \o <<"gschemas">>)

IsccCommand == Command("iscc", inno_script)

\* path components that begin with the letters "mingw"
MingwComponents == {"mingw64", "mingw32"}

\* path components that end with the lower-case letters ".dll"
DllComponents == {"libgtk-4-1.dll"} \cup LoaderNames \cup EglNames \cup GlesNames

SetMin(S) == CHOOSE x \in S : \A y \in S : x <= y

SetMax(S) == CHOOSE x \in S : \A y \in S : x >= y

\* grep '\/mingw.*\.dll' -o on one line of ldd's output: the text from the first
\* "/mingw" to the last ".dll" after it, or nothing
GrepMingwDll(path) ==
    LET starts == {i \in 1..Len(path) : path[i] \in MingwComponents}
    IN  IF starts = {} THEN {}
        ELSE LET i == SetMin(starts)
                 ends == {j \in i..Len(path) : path[j] \in DllComponents}
             IN  IF ends = {} THEN {} ELSE {SubSeq(path, i, SetMax(ends))}

PipefailStatus(statuses) ==
    LET bad == {i \in 1..Len(statuses) : statuses[i] # 0}
    IN  IF bad = {} THEN 0 ELSE statuses[SetMax(bad)]

\* os.system: the status of a shell pipeline is the status of its last command
SystemStatus(statuses) == statuses[Len(statuses)]

\* the DLL files on disk: what ldd resolves, the loaders and the angle DLLs
ExistingDlls ==
    UNION {ldd_out[b] : b \in DOMAIN ldd_out} \cup Range(loaders) \cup Range(angle_dlls)

\* One run of the ldd pipeline on a binary.  cp_fails is the set of matched
\* paths whose cp fails for a reason of the environment (disk, permissions).
\* ldd prints nothing and returns 1 for a missing binary; grep returns 1 when
\* it selects no line; xargs -i runs cp once per input line, none for empty
\* input, and returns 123 when some cp failed.
LddPipeline(binary_exists, out, cp_fails) ==
    LET printed == IF binary_exists THEN out ELSE {}
        matched == UNION {GrepMingwDll(p) : p \in printed}
        copied  == {p \in matched : p \in ExistingDlls /\ p \notin cp_fails}
    IN  [statuses |-> << IF binary_exists THEN 0 ELSE 1,
                         IF matched = {} THEN 1 ELSE 0,
                         IF copied = matched THEN 0 ELSE 123 >>,
         matched  |-> matched,
         copied   |-> copied]

----------------------------------------------------------------------------
(* The diagnostic stream. *)

Msg(kind, text, path, code, command) ==
    [kind |-> kind, text |-> text, path |-> path, code |-> code, command |-> command]

Info(text) == Msg("info", text, <<>>, 0, NoCommand)

Header == Info("### executing Inno-Setup installer build script with arguments: ###")

Traceback(exception, path) == Msg("traceback", exception, path, 0, NoCommand)

ErrorMessage(text, path) == [text |-> text, path |-> path]

ErrorReportNoCommand(error_message, res, command) ==
    << Msg("error", error_message.text, error_message.path, res, NoCommand) >>

\* print(f"{error_message}, code: {res}"); print(f"command: {command}")
ErrorReport(error_message, res, command) ==
    << Msg("error", error_message.text, error_message.path, res, NoCommand),
       Msg("command", "command:", <<>>, 0, command) >>

\* the script runs off its end
ExitSuccess == 0

ExitFailureAsSuccess == ExitSuccess

\* sys.exit(1)
ExitFailure == 1

AbortsNever(res) == FALSE

\* if res != 0: ... sys.exit(1)
Aborts(res) == res # 0

Printed(text) == \E i \in 1..Len(stderr) : stderr[i].kind = "info" /\ stderr[i].text = text

Invoked(prog) == \E i \in 1..Len(syslog) : syslog[i].command.prog = prog

----------------------------------------------------------------------------
(* The locale trees.  An entry of a locale tree is a top-level name that   *)
(* is a directory (holding an LC_MESSAGES directory or not) or a file.     *)

LangTags == {"de", "fr"}

AppCatalog == "rnote.mo"

Entry(name, kind, lc, catalogs) ==
    [name |-> name, kind |-> kind, lc |-> lc, catalogs |-> catalogs]

NoTree == [exists |-> FALSE, entries |-> {}]

EntryNames(tree) == {e.name : e \in tree.entries}

\* the catalogs a language of <build_environment_path>/share/locale can hold
SystemTreeCatalogs == {"glib20.mo", "gtk40.mo", "libadwaita.mo"}

SystemCatalogsNoAdwaita == <<"glib20.mo", "gtk40.mo">>

\* glib_locale, gtk4_locale, adw_locale
SystemCatalogs == <<"glib20.mo", "gtk40.mo", "libadwaita.mo">>

SystemCatalogPath(tag, catalog) ==
    build_environment_path \o <<"share", "locale", tag, "LC_MESSAGES", catalog>>

\* the catalogs in <build_environment_path>/share/locale/<name>/LC_MESSAGES
SystemCatalogsOf(name) == IF name \in DOMAIN sys_locale THEN sys_locale[name] ELSE {}

\* if os.path.exists(locale_dir): shutil.rmtree(locale_dir)
RemoveTree(tree) == NoTree

CopytreeDirsWithCatalogs(src) ==
    [exists  |-> TRUE,
     entries |-> {Entry(e.name, e.kind, e.lc,
                        {File(c, {app_mo_path \o <<e.name, "LC_MESSAGES", c>>}) : c \in e.catalogs})
                  : e \in {x \in Range(src.listing) : x.lc}}]

\* shutil.copytree(app_mo_dir, locale_dir): the whole tree, verbatim
Copytree(src) ==
    [exists  |-> TRUE,
     entries |-> {Entry(e.name, e.kind, e.lc,
                        {File(c, {app_mo_path \o <<e.name, "LC_MESSAGES", c>>}) : c \in e.catalogs})
                  : e \in Range(src.listing)}]

\* the three "if os.path.exists(x): shutil.copy(x, current_locale_out_dir)", in order
RECURSIVE CopySystemCatalogs(_, _, _)
CopySystemCatalogs(files, tag, todo) ==
    IF todo = <<>> THEN files
    ELSE LET c == Head(todo)
             now == IF c \in SystemCatalogsOf(tag)
                      THEN {f \in files : f.name # c} \cup {File(c, {SystemCatalogPath(tag, c)})}
                      ELSE files
         IN  CopySystemCatalogs(now, tag, Tail(todo))

\* one iteration of "for file in os.listdir(app_mo_dir)" on a directory entry
WithSystemLocale(tree, tag) ==
    [tree EXCEPT !.entries =
        {IF e.name = tag
           THEN Entry(e.name, e.kind, TRUE, CopySystemCatalogs(e.catalogs, tag, SystemCatalogs))
           ELSE e : e \in @}]

\* glib-compile-schemas <dir>: writes gschemas.compiled from the schema files of <dir>
CompileSchemasIn(dir) ==
    [dir EXCEPT !.files = {f \in @ : f.name # "gschemas.compiled"} \cup
        {File("gschemas.compiled", UNION {f.data : f \in {g \in @ : g.name # "gschemas.compiled"}})}]

\* the exit status of glib-compile-schemas
CompileStatus(schema) == IF schema = "malformed" THEN 1 ELSE 0

\* the exit statuses iscc can return: 0 done, 1 bad invocation (no such script), 2 compile failed
IsccStatuses(script_exists) == IF script_exists THEN {0, 2} ELSE {1}

----------------------------------------------------------------------------
(* The inputs a run can find on disk, within the bounds. *)

LddOuts(env, app_exists, ls, as) ==
    {f \in [{ui_output} \cup Range(ls) \cup Range(as) -> SUBSET {LibPath(env), SystemDllPath}] :
        /\ ~app_exists => f[ui_output] = {}
        /\ \A b \in Range(ls) \cup Range(as) : f[b] \subseteq {LibPath(env)}}

LoaderSeqs(env, names) ==
    InjectiveSeqs({LoaderPath(env, n) : n \in names}, MaxLoaders)

AngleSeqs(env, egl, gles) ==
    {s \in {e \o g : e \in InjectiveSeqs({AnglePath(env, n) : n \in egl}, MaxAngle),
                     g \in InjectiveSeqs({AnglePath(env, n) : n \in gles}, MaxAngle)} :
        Len(s) <= MaxAngle}

DllInputs(loader_names, egl, gles) ==
    UNION {UNION {UNION {UNION {
        {[env |-> env, app_exists |-> x, loaders |-> ls, angle |-> as, ldd |-> f] :
            f \in LddOuts(env, x, ls, as)}
        : as \in AngleSeqs(env, egl, gles)}
        : ls \in LoaderSeqs(env, loader_names)}
        : x \in BOOLEAN}
        : env \in Environments}

SchemaInputs ==
    {[system |-> ss, app |-> a] : ss \in SUBSET SchemaNames, a \in {"missing", "malformed", "valid"}}

PoEntries(names) ==
    {Entry(n, "dir", TRUE, {AppCatalog}) : n \in names \cap LangTags}
    \cup {Entry(n, "dir", FALSE, {}) : n \in names \cap LangTags}
    \cup {Entry(n, "file", FALSE, {}) : n \in names \ LangTags}

PoTrees(names) ==
    {[exists |-> FALSE, listing |-> <<>>]} \cup
    {[exists |-> TRUE, listing |-> l] :
        l \in {s \in InjectiveSeqs(PoEntries(names), MaxLangs) :
                 \A i, j \in 1..Len(s) : s[i].name = s[j].name => i = j}}

LocaleInputs(names, catalogs) ==
    {[po |-> t, system |-> sl] :
        t \in PoTrees(names), sl \in [LangTags -> SUBSET catalogs]}

StaleDir(name) == [exists |-> TRUE, files |-> {File(name, {Stale})}]

StaleTree ==
    [exists |-> TRUE, entries |-> {Entry("xx", "dir", TRUE, {File("gtk40.mo", {Stale})})}]

NoResult == [valid |-> FALSE, run |-> 0, dlls |-> NoDir, gschemas |-> NoDir, locale |-> NoTree]

InitWith(D, S, L, scripts, leftovers) ==
    \E d \in D, s \in S, l \in L, x \in scripts, w \in leftovers :
        /\ build_environment_path = d.env
        /\ ui_output_exists = d.app_exists
        /\ loaders = d.loaders
        /\ angle_dlls = d.angle
        /\ ldd_out = d.ldd
        /\ sys_schemas = {SchemaPath(d.env, n) : n \in s.system}
        /\ app_schema = s.app
        /\ app_mo_dir = l.po
        /\ sys_locale = l.system
        /\ inno_script_exists = x
        /\ dlls_dir = IF w THEN StaleDir("libold-1.dll") ELSE NoDir
        /\ gschemas_dir = IF w THEN StaleDir("gschemas.compiled") ELSE NoDir
        /\ locale_dir = IF w THEN StaleTree ELSE NoTree
        /\ pc = "idle"
        /\ idx = 0
        /\ exit_status = ExitSuccess
        /\ stderr = <<>>
        /\ syslog = <<>>
        /\ runs = 0
        /\ first_ok = NoResult

\* every stage's inputs vary, each over a few cases
Init ==
    InitWith({d \in DllInputs({"libpixbufloader-svg.dll"}, EglNames, {}) :
                 /\ \A b \in Range(d.loaders) : d.ldd[b] # {}
                 /\ \A b \in Range(d.angle) : d.ldd[b] = {}},
             SchemaInputs,
             LocaleInputs({"de"}, {"gtk40.mo"}),
             BOOLEAN, BOOLEAN)

\* the DLL stage's inputs vary in full
InitDlls ==
    InitWith(DllInputs(LoaderNames, EglNames, GlesNames),
             {s \in SchemaInputs : s.app = "valid" /\ s.system = SchemaNames},
             {l \in LocaleInputs({"de"}, {"gtk40.mo"}) :
                 /\ l.po.exists /\ Len(l.po.listing) = 1 /\ l.po.listing[1].lc
                 /\ l.system["de"] # {}},
             {TRUE}, BOOLEAN)

\* the locale stage's inputs vary in full
InitLocale ==
    InitWith({d \in DllInputs({"libpixbufloader-svg.dll"}, EglNames, {}) :
                 /\ d.app_exists /\ Len(d.loaders) = 1 /\ Len(d.angle) = 1
                 /\ \A b \in DOMAIN d.ldd : d.ldd[b] = {LibPath(d.env)}},
             {s \in SchemaInputs : s.app = "valid" /\ s.system = SchemaNames},
             LocaleInputs(LangTags \cup {"LINGUAS"}, SystemTreeCatalogs),
             {TRUE}, BOOLEAN)

----------------------------------------------------------------------------
(* The script. *)

\* an uncaught exception: the traceback goes to stderr and the status is 1
Raise(before, exception, path) ==
    /\ stderr' = stderr \o before \o <<Traceback(exception, path)>>
    /\ pc' = "exited"
    /\ exit_status' = 1
    /\ idx' = idx
    /\ syslog' = syslog

\* def run_command(command, error_message), with what the script prints before
\* the call and what it does after the call returns
RunCommand(command, statuses, error_message, before, after, next_pc, next_idx) ==
    LET res == SystemStatus(statuses)
    IN  /\ syslog' = Append(syslog, [command |-> command, statuses |-> statuses, res |-> res])
        /\ IF Aborts(res)
             THEN /\ stderr' = stderr \o before \o ErrorReport(error_message, res, command)
                  /\ pc' = "exited"
                  /\ exit_status' = ExitFailure
                  /\ idx' = idx
             ELSE /\ stderr' = stderr \o before \o after
                  /\ pc' = next_pc
                  /\ exit_status' = exit_status
                  /\ idx' = next_idx

AfterLoaders == IF angle_dlls # <<>> THEN "angle_cp" ELSE "collect_gschemas"

Start ==
    /\ pc \in {"idle", "exited"}
    /\ runs < MaxRuns
    /\ runs' = runs + 1
    /\ stderr' = <<Header>>
    /\ syslog' = <<>>
    /\ exit_status' = ExitSuccess
    /\ idx' = 0
    /\ pc' = "collect_dlls"
    /\ UNCHANGED <<inputs, outputs, first_ok>>

PrepareDlls ==
    /\ pc = "collect_dlls"
    /\ stderr' = Append(stderr, Info("Collecting DLLs..."))
    /\ dlls_dir' = RecreateDir(dlls_dir)
    /\ pc' = "app_dlls"
    /\ UNCHANGED <<inputs, gschemas_dir, locale_dir, idx, exit_status, syslog, runs, first_ok>>

CollectAppDlls ==
    /\ pc = "app_dlls"
    /\ \E cp_fails \in SUBSET LddPipeline(ui_output_exists, ldd_out[ui_output], {}).matched :
         LET r == LddPipeline(ui_output_exists, ldd_out[ui_output], cp_fails)
         IN  /\ dlls_dir' = CopyInto(dlls_dir, r.copied)
             /\ RunCommand(LddCommand(ui_output), r.statuses,
                           ErrorMessage("Collecting app DLLs failed", <<>>), <<>>, <<>>,
                           IF loaders # <<>> THEN "loader_dlls" ELSE AfterLoaders, 1)
    /\ UNCHANGED <<inputs, gschemas_dir, locale_dir, runs, first_ok>>

CollectLoaderDlls ==
    /\ pc = "loader_dlls"
    /\ LET loader == loaders[idx]
       IN  \E cp_fails \in SUBSET LddPipeline(TRUE, ldd_out[loader], {}).matched :
             LET r == LddPipeline(TRUE, ldd_out[loader], cp_fails)
             IN  /\ dlls_dir' = CopyInto(dlls_dir, r.copied)
                 /\ RunCommand(LddCommand(loader), r.statuses,
                               ErrorMessage("Collecting pixbuf-loader DLLs failed", loader),
                               <<>>, <<>>,
                               IF idx < Len(loaders) THEN "loader_dlls" ELSE AfterLoaders,
                               IF idx < Len(loaders) THEN idx + 1 ELSE 1)
    /\ UNCHANGED <<inputs, gschemas_dir, locale_dir, runs, first_ok>>

CopyAngleDll ==
    /\ pc = "angle_cp"
    /\ LET angle_dll == angle_dlls[idx]
       IN  \E cp_failed \in BOOLEAN :
             /\ dlls_dir' = IF cp_failed THEN dlls_dir ELSE CopyInto(dlls_dir, {angle_dll})
             /\ RunCommand(CpCommand(angle_dll), << IF cp_failed THEN 1 ELSE 0 >>,
                           ErrorMessage("Collecting angle DLLs failed", angle_dll),
                           <<>>, <<>>, "angle_ldd", idx)
    /\ UNCHANGED <<inputs, gschemas_dir, locale_dir, runs, first_ok>>

CollectAngleDeps ==
    /\ pc = "angle_ldd"
    /\ LET angle_dll == angle_dlls[idx]
       IN  \E cp_fails \in SUBSET LddPipeline(TRUE, ldd_out[angle_dll], {}).matched :
             LET r == LddPipeline(TRUE, ldd_out[angle_dll], cp_fails)
             IN  /\ dlls_dir' = CopyInto(dlls_dir, r.copied)
                 /\ RunCommand(LddCommand(angle_dll), r.statuses,
                               ErrorMessage("Collecting angle dependency DLLs failed", angle_dll),
                               <<>>, <<>>,
                               IF idx < Len(angle_dlls) THEN "angle_cp" ELSE "collect_gschemas",
                               IF idx < Len(angle_dlls) THEN idx + 1 ELSE 0)
    /\ UNCHANGED <<inputs, gschemas_dir, locale_dir, runs, first_ok>>

CollectGschemas ==
    /\ pc = "collect_gschemas"
    /\ LET before == <<Info("Collecting and compiling GSchemas...")>>
           system == CopyInto(RecreateDir(gschemas_dir), sys_schemas)
       IN  IF app_schema = "missing"
             THEN /\ gschemas_dir' = system
                  /\ Raise(before, "FileNotFoundError", app_schema_path)
             ELSE /\ gschemas_dir' = CopyInto(system, {app_schema_path})
                  /\ stderr' = stderr \o before
                  /\ pc' = "compile_schemas"
                  /\ UNCHANGED <<idx, exit_status, syslog>>
    /\ UNCHANGED <<inputs, dlls_dir, locale_dir, runs, first_ok>>

CompileSchemas ==
    /\ pc = "compile_schemas"
    /\ LET status == CompileStatus(app_schema)
       IN  /\ gschemas_dir' = IF status = 0 THEN CompileSchemasIn(gschemas_dir) ELSE gschemas_dir
           /\ RunCommand(CompileCommand, <<status>>,
                         ErrorMessage("Compiling schemas failed", <<>>), <<>>, <<>>,
                         "collect_locale", 0)
    /\ UNCHANGED <<inputs, dlls_dir, locale_dir, runs, first_ok>>

CopyAppLocale ==
    /\ pc = "collect_locale"
    /\ LET before == <<Info("Collecting locale...")>>
           removed == RemoveTree(locale_dir)
       IN  IF ~app_mo_dir.exists
             THEN /\ locale_dir' = removed
                  /\ Raise(before, "FileNotFoundError", app_mo_path)
             ELSE IF removed.exists
             THEN /\ locale_dir' = removed
                  /\ Raise(before, "FileExistsError", build_root \o <<"locale">>)
             ELSE /\ locale_dir' = Copytree(app_mo_dir)
                  /\ stderr' = stderr \o before
                  /\ pc' = IF app_mo_dir.listing # <<>> THEN "system_locale" ELSE "build_installer"
                  /\ idx' = 1
                  /\ UNCHANGED <<exit_status, syslog>>
    /\ UNCHANGED <<inputs, dlls_dir, gschemas_dir, runs, first_ok>>

CollectSystemLocale ==
    /\ pc = "system_locale"
    /\ LET current_lang == app_mo_dir.listing[idx].name
       IN  IF \E e \in locale_dir.entries : e.name = current_lang /\ e.kind = "file"
             THEN /\ locale_dir' = locale_dir
                  /\ Raise(<<>>, "OSError",
                           build_root \o <<"locale", current_lang, "LC_MESSAGES">>)
             ELSE /\ locale_dir' = WithSystemLocale(locale_dir, current_lang)
                  /\ pc' = IF idx < Len(app_mo_dir.listing) THEN "system_locale" ELSE "build_installer"
                  /\ idx' = IF idx < Len(app_mo_dir.listing) THEN idx + 1 ELSE 0
                  /\ UNCHANGED <<exit_status, syslog, stderr>>
    /\ UNCHANGED <<inputs, dlls_dir, gschemas_dir, runs, first_ok>>

BuildInstaller ==
    /\ pc = "build_installer"
    /\ \E status \in IsccStatuses(inno_script_exists) :
         /\ RunCommand(IsccCommand, <<status>>, ErrorMessage("Running ISCC failed", <<>>),
                       <<Info("Running ISCC...")>>,
                       <<Info("### Inno-Setup installer build script finished ###")>>,
                       "exited", 0)
         /\ first_ok' = IF ~Aborts(status) /\ ~first_ok.valid
                          THEN [valid |-> TRUE, run |-> runs, dlls |-> dlls_dir, gschemas |-> gschemas_dir,
                                locale |-> locale_dir]
                          ELSE first_ok
    /\ UNCHANGED <<inputs, outputs, runs>>

Next ==
    \/ Start
    \/ PrepareDlls
    \/ CollectAppDlls
    \/ CollectLoaderDlls
    \/ CopyAngleDll
    \/ CollectAngleDeps
    \/ CollectGschemas
    \/ CompileSchemas
    \/ CopyAppLocale
    \/ CollectSystemLocale
    \/ BuildInstaller

Spec == Init /\ [][Next]_vars

SpecDlls == InitDlls /\ [][Next]_vars

SpecLocale == InitLocale /\ [][Next]_vars

----------------------------------------------------------------------------
(* What the claims speak of. *)

StageLines ==
    <<"Collecting DLLs...", "Collecting and compiling GSchemas...",
      "Collecting locale...", "Running ISCC...">>

\* the failure messages of each stage's run_command call sites
StageFailures(line) ==
    IF line = "Collecting DLLs..."
      THEN {"Collecting app DLLs failed", "Collecting pixbuf-loader DLLs failed",
            "Collecting angle DLLs failed", "Collecting angle dependency DLLs failed"}
    ELSE IF line = "Collecting and compiling GSchemas..." THEN {"Compiling schemas failed"}
    ELSE IF line = "Running ISCC..." THEN {"Running ISCC failed"}
    ELSE {}

\* the stage the script is in: the last stage line on stderr
CurrentStageLine ==
    LET at == {i \in 1..Len(stderr) : stderr[i].text \in Range(StageLines)}
    IN  IF at = {} THEN "" ELSE stderr[SetMax(at)].text

LastCall == syslog[Len(syslog)]

IsccCalls == {i \in 1..Len(syslog) : syslog[i].command = IsccCommand}

UnderPrefix(path, prefix) ==
    Len(path) >= Len(prefix) /\ SubSeq(path, 1, Len(prefix)) = prefix

NoStale(files) == \A f \in files : Stale \notin f.data

AppTags == {e.name : e \in Range(app_mo_dir.listing)}

LocaleStageDone == pc = "build_installer" \/ Printed("Running ISCC...")

\* a call whose inspected program (ldd, cp, glib-compile-schemas, iscc) or whose
\* command line as a whole returned non-zero; grep selecting no line is no failure
CommandFailed(call) == call.statuses[1] # 0 \/ call.res # 0

\* C1: a run exits 0 only if every stage succeeded and exits 1 if any invoked
\* external command returned non-zero; the failing command is the last one run.
C1_FailingCommandEndsRun ==
    \A i \in 1..Len(syslog) :
        CommandFailed(syslog[i]) =>
            /\ i = Len(syslog)
            /\ pc = "exited"
            /\ exit_status = 1

\* C2: a missing application binary or application schema aborts the run with a
\* non-zero status before any later stage; the installer compiler is never run.
C2_MissingInputIsFatal ==
    /\ ~ui_output_exists =>
          /\ ~Printed("Collecting and compiling GSchemas...")
          /\ IsccCalls = {}
          /\ ~(pc = "exited" /\ exit_status = 0)
    /\ app_schema = "missing" =>
          /\ ~Printed("Collecting locale...")
          /\ IsccCalls = {}
          /\ ~(pc = "exited" /\ exit_status = 0)

\* every stage before the installer stage has run to its end
EarlierStagesCompleted ==
    /\ \A k \in 1..3 : Printed(StageLines[k])
    /\ dlls_dir.exists
    /\ \A b \in Range(loaders) \cup Range(angle_dlls) :
          \E i \in 1..Len(syslog) : syslog[i].command = LddCommand(b)
    /\ gschemas_dir.exists
    /\ "gschemas.compiled" \in Names(gschemas_dir)
    /\ locale_dir.exists
    /\ \A e \in locale_dir.entries : e.name \in AppTags => e.lc

\* C3: iscc is invoked at most once, only after the DLL, schema and locale
\* stages completed without a failing command, and the run exits 0 iff iscc
\* was reached and returned 0, and 1 if iscc returned non-zero.
C3_InstallerLastAndPropagated ==
    /\ Cardinality(IsccCalls) <= 1
    /\ \A i \in IsccCalls :
          /\ i = Len(syslog)
          /\ \A j \in 1..(i - 1) : syslog[j].res = 0
          /\ EarlierStagesCompleted
    /\ pc = "exited" =>
          /\ exit_status = 0 <=> \E i \in IsccCalls : syslog[i].res = 0
          /\ (\E i \in IsccCalls : syslog[i].res # 0) => exit_status = 1

C3_Witness ==
    /\ pc = "exited"
    /\ exit_status = 0
    /\ IsccCalls # {}
    /\ Len(syslog) >= 4

\* C4: after the locale stage the top-level entries of locale/ are exactly those
\* of the application's po tree, each still holding the application's catalogs,
\* and nothing of the system tree appears for a tag the application lacks.
C4_LocaleTagsAreAppTags ==
    LocaleStageDone =>
        /\ EntryNames(locale_dir) = AppTags
        /\ \A e \in Range(app_mo_dir.listing) :
              \E o \in locale_dir.entries :
                  /\ o.name = e.name
                  /\ \A c \in e.catalogs :
                        File(c, {app_mo_path \o <<e.name, "LC_MESSAGES", c>>}) \in o.catalogs
        /\ \A tag \in LangTags \ AppTags :
              \A o \in locale_dir.entries : \A f \in o.catalogs :
                  \A c \in {"glib20.mo", "gtk40.mo", "libadwaita.mo"} :
                      SystemCatalogPath(tag, c) \notin f.data

C4_Witness ==
    /\ LocaleStageDone
    /\ "de" \in AppTags
    /\ "fr" \notin AppTags
    /\ sys_locale["fr"] # {}
    /\ sys_locale["de"] # {}
    /\ \E o \in locale_dir.entries : o.name = "de" /\ AppCatalog \in {f.name : f \in o.catalogs}

\* C5: a successful run leaves in dlls/, gschemas/ and locale/ nothing of what
\* was there before it, and the same trees as the first successful run on the
\* same inputs.
C5_OutputsDependOnInputsOnly ==
    (pc = "exited" /\ exit_status = 0) =>
        /\ NoStale(dlls_dir.files)
        /\ NoStale(gschemas_dir.files)
        /\ \A e \in locale_dir.entries : NoStale(e.catalogs)
        /\ "xx" \notin EntryNames(locale_dir)
        /\ first_ok.valid
        /\ <<dlls_dir, gschemas_dir, locale_dir>> =
              <<first_ok.dlls, first_ok.gschemas, first_ok.locale>>

C5_Witness ==
    /\ pc = "exited"
    /\ exit_status = 0
    /\ runs = 2
    /\ first_ok.run = 1
    /\ dlls_dir.files # {}
    /\ locale_dir.entries # {}

C7_AbortKeepsEarlierOutputs ==
    [][ /\ pc = "build_installer" =>
              /\ <<dlls_dir, gschemas_dir, locale_dir>>' = <<dlls_dir, gschemas_dir, locale_dir>>
              /\ ~inno_script_exists =>
                    /\ pc' = "exited"
                    /\ exit_status' = 1
                    /\ stderr'[Len(stderr') - 1].text = "Running ISCC failed"
        /\ (pc' = "exited" /\ pc \in {"collect_gschemas", "compile_schemas"}) =>
              dlls_dir' = dlls_dir
        /\ (pc' = "exited" /\ pc \in {"collect_locale", "system_locale"}) =>
              <<dlls_dir, gschemas_dir>>' = <<dlls_dir, gschemas_dir>>
      ]_vars

C7_Witness ==
    /\ pc = "exited"
    /\ exit_status = 1
    /\ ~inno_script_exists
    /\ IsccCalls # {}
    /\ dlls_dir.files # {}
    /\ "gschemas.compiled" \in Names(gschemas_dir)
    /\ locale_dir.entries # {}

\* C8: the ldd pipeline on a binary none of whose dependencies lies under the
\* build environment is no failure, and after it has run on such an application
\* binary dlls/ exists and is empty.
C8_NoDependenciesIsNoFailure ==
    /\ \A i \in 1..Len(syslog) :
          (/\ syslog[i].command.prog = LddCommand(ui_output).prog
           /\ syslog[i].statuses[1] = 0
           /\ \A p \in ldd_out[syslog[i].command.arg] : ~UnderPrefix(p, build_environment_path))
          => syslog[i].res = 0
    /\ (/\ Len(syslog) = 1
        /\ ui_output_exists
        /\ \A p \in ldd_out[ui_output] : ~UnderPrefix(p, build_environment_path))
       => /\ pc # "exited"
          /\ dlls_dir = [exists |-> TRUE, files |-> {}]

C8_Witness ==
    /\ Len(syslog) = 1
    /\ ui_output_exists
    /\ ldd_out[ui_output] = {SystemDllPath}
    /\ pc \in {"loader_dlls", "angle_cp", "collect_gschemas"}
    /\ dlls_dir = [exists |-> TRUE, files |-> {}]

\* C9: after the locale stage, for each language tag of the application's tree
\* and each of glib20.mo, gtk40.mo, libadwaita.mo, the catalog is in
\* locale/<tag>/LC_MESSAGES (which exists) iff the system tree has it; a missing
\* system catalog never aborts the stage; a failed copy of the application's
\* tree does.
C9_SystemCatalogsBestEffort ==
    /\ LocaleStageDone =>
          /\ app_mo_dir.exists
          /\ \A e \in Range(app_mo_dir.listing) :
                \E o \in locale_dir.entries :
                    /\ o.name = e.name
                    /\ o.lc
                    /\ \A c \in {"glib20.mo", "gtk40.mo", "libadwaita.mo"} :
                          (\E f \in o.catalogs : f.name = c) <=> c \in SystemCatalogsOf(e.name)
    /\ (pc = "exited" /\ CurrentStageLine = "Collecting locale...") =>
          /\ exit_status = 1
          /\ ~app_mo_dir.exists \/ \E e \in Range(app_mo_dir.listing) : e.kind = "file"
    /\ ~app_mo_dir.exists => ~LocaleStageDone

C9_Witness ==
    /\ LocaleStageDone
    /\ \E e \in Range(app_mo_dir.listing) :
          /\ ~e.lc
          /\ sys_locale[e.name] = {"gtk40.mo"}
          /\ \E o \in locale_dir.entries :
                o.name = e.name /\ o.lc /\ {f.name : f \in o.catalogs} = {"gtk40.mo"}

\* C10: once the DLL stage is over, a dependency ldd reported for the application
\* binary, a loader or an angle DLL is in dlls/ iff its path lies under
\* build_environment_path.
C10_CopiedIffUnderEnvironment ==
    Printed("Collecting and compiling GSchemas...") =>
        \A b \in DOMAIN ldd_out : \A p \in ldd_out[b] :
            File(Basename(p), {p}) \in dlls_dir.files <=> UnderPrefix(p, build_environment_path)

====
